---- MODULE Spec2Model ----
(***************************************************************************)
(* Model of the song catalogue service of main.go: the five gin handlers   *)
(* GetSongs, AddSong, UpdateSong, DeleteSong and GetSongText, the songs    *)
(* table they reach through gorm, the enrichment call of AddSong, and the  *)
(* lazily initialised package variable db behind GetDB.                    *)
(*                                                                         *)
(* Spec    : requests handled one after another, each handler one action.  *)
(* SpecGetDB: several request goroutines inside GetDB, one step per read   *)
(*           or write of the shared variable db.                           *)
(***************************************************************************)
EXTENDS Integers, Sequences, FiniteSets, TLC

VARIABLES
  store,        \* the rows of the songs table, each a Song
  seq,          \* the next value of the table's id sequence
  db,           \* the package variable db: 0 is nil, else the connection
  opens,        \* connections opened by gorm.Open so far
  req,          \* the request being handled (op "none": no request)
  resp,         \* the response written for req
  pg,           \* page, limit and offset as the handler of req computed them
  lastDeleted,  \* history: the id last deleted with no create since, or 0
  pc,           \* per goroutine inside GetDB: the statement it is at
  conn,         \* per goroutine: its local dbConn
  got,          \* per goroutine: the handle its last GetDB returned
  fatal         \* log.Fatal has ended the process

vars == <<store, seq, db, opens, req, resp, pg, lastDeleted, pc, conn, got, fatal>>

----------------------------------------------------------------------------
(* Bounds of the model *)

\* Largest id a client names and the songs_id_seq sequence hands out.
MaxId == 2

\* Largest number written in a page or limit query value.
MaxNum == 2

\* Request goroutines that may be inside GetDB at once.
NumWorkers == 3

(* Program constants *)

DefaultPage == 1
DefaultLimit == 10
StatusOK == 200
StatusCreated == 201
StatusBadRequest == 400
StatusNotFound == 404
StatusInternalServerError == 500

----------------------------------------------------------------------------
(* Values *)

\* Lyrics are byte strings; a byte is "a" or "b".
NoText == << >>
EnrichText == <<"a", "b", "a">>
PatchText == <<"b", "b">>

\* The zero value of the struct Song.
ZeroSong ==
  [ID |-> 0, Group |-> "", SongName |-> "", ReleaseDate |-> "",
   Text |-> NoText, Link |-> ""]

SongFields == {"ID", "Group", "SongName", "ReleaseDate", "Text", "Link"}

RowIds(rows) == {r.ID : r \in rows}

\* A raw path or query value: absent, not a number, or a number.
Absent == [k |-> "absent", n |-> 0]
NaN == [k |-> "nan", n |-> 0]
Num(n) == [k |-> "num", n |-> n]

\* A written 0 is left out: it parses to what a non-number parses to.
QueryVals == {Absent, NaN} \cup {Num(n) : n \in (-1..MaxNum) \ {0}}
PathVals == {NaN} \cup {Num(n) : n \in 0..MaxId}

\* strconv.Atoi(c.DefaultQuery(key, def)) with the error dropped: def when
\* the key is absent, 0 when the value is not a number.
AtoiDefaultQuery(q, def) ==
  IF q.k = "absent" THEN def ELSE IF q.k = "nan" THEN 0 ELSE q.n

min(a, b) == IF a < b THEN a ELSE b

\* needle occurs in hay as a contiguous run (text LIKE '%needle%').
Contains(hay, needle) ==
  \E i \in 0..(Len(hay) - Len(needle)) :
    \A j \in 1..Len(needle) : hay[i + j] = needle[j]

\* binding:"required" on Group and SongName.
Required(song) == song.Group # "" /\ song.SongName # ""

----------------------------------------------------------------------------
(* The songs table behind gorm *)

\* db.Create(&newSong): a non-zero primary key is inserted as given and the
\* sequence is left alone; a zero one takes the next value of the sequence,
\* which stays consumed when the insert fails. An id already in the table
\* violates the primary key.
DbCreate(rows, sq, song) ==
  LET id == IF song.ID # 0 THEN song.ID ELSE sq
      nsq == IF song.ID # 0 THEN sq ELSE sq + 1
      row == [song EXCEPT !.ID = id]
  IN IF id \in RowIds(rows)
       THEN [err |-> TRUE, rows |-> rows, seq |-> nsq, song |-> song]
       ELSE [err |-> FALSE, rows |-> rows \cup {row}, seq |-> nsq,
             song |-> row]

\* The zero value of a field of Song.
IsZero(f, v) == v = ZeroSong[f]

\* db.Model(&Song{}).Where("id = ?", id).Updates(&song): every non-zero
\* field of song is assigned, the primary key included since song is not
\* the model value; the statement fails when the new id is another row's.
DbUpdates(rows, id, song) ==
  LET hit == {r \in rows : r.ID = id}
      upd(r) == [f \in SongFields |->
                   IF ~IsZero(f, song[f]) THEN song[f] ELSE r[f]]
      new == {upd(r) : r \in hit}
      rest == rows \ hit
  IN IF \E r \in new : r.ID \in RowIds(rest)
       THEN [err |-> TRUE, rows |-> rows, affected |-> 0]
       ELSE [err |-> FALSE, rows |-> rest \cup new,
             affected |-> Cardinality(hit)]

\* db.Where("id = ?", id).Delete(&Song{})
DbDelete(rows, id) ==
  LET hit == {r \in rows : r.ID = id}
  IN [rows |-> rows \ hit, affected |-> Cardinality(hit)]

\* db.First(&song, id): the rows with that primary key (none:
\* gorm.ErrRecordNotFound).
DbFirst(rows, id) == {r \in rows : r.ID = id}

\* The conditions GetSongs chains onto query: one per non-empty field.
Matches(r, song) ==
  /\ song.Group # "" => r.Group = song.Group
  /\ song.SongName # "" => r.SongName = song.SongName
  /\ song.ReleaseDate # "" => r.ReleaseDate = song.ReleaseDate
  /\ song.Text # NoText => Contains(r.Text, song.Text)
  /\ song.Link # "" => r.Link = song.Link

\* The rows the statement GetSongs executes selects from: it is built on
\* db with the empty map where, not on query.
Selected(rows, song) == rows

\* Offset(offset).Limit(limit).Find(&songs) over rows, as the set of
\* results the table may give: no ORDER BY, so any rows of the right
\* number. OFFSET is written only when positive, LIMIT not when negative;
\* Limit(0) is LIMIT 0 or no LIMIT depending on the gorm release.
DbFind(rows, offset, limit) ==
  LET n == Cardinality(rows)
      skip == IF offset > 0 THEN offset ELSE 0
      avail == IF n > skip THEN n - skip ELSE 0
      counts == IF limit > 0 THEN {min(limit, avail)}
                ELSE IF limit = 0 THEN {0, avail} ELSE {avail}
  IN {s \in SUBSET rows : Cardinality(s) \in counts}

----------------------------------------------------------------------------
(* Requests *)

\* A decoded request body or bound query: the Song it fills, or a body
\* that does not decode (a query value of the wrong type).
Decoded(song) == [decodable |-> TRUE, song |-> song]
Undecodable == [decodable |-> FALSE, song |-> ZeroSong]

\* Bodies of POST /songs.
AddBodies ==
  {Decoded([ZeroSong EXCEPT !.ID = i, !.Group = g, !.SongName = "S",
                            !.ReleaseDate = x[1], !.Text = x[2],
                            !.Link = x[3]]) :
     i \in 0..MaxId, g \in {"A", "B"},
     x \in {<<"", NoText, "">>, <<"dc", <<"b">>, "lc">>}}
  \cup {Decoded([ZeroSong EXCEPT !.Group = "A"]),
        Decoded([ZeroSong EXCEPT !.SongName = "S"]),
        Decoded(ZeroSong), Undecodable}

\* Bodies of PUT /songs/:id.
Patches ==
  {Decoded([ZeroSong EXCEPT !.ID = i, !.Group = g, !.SongName = "S",
                            !.ReleaseDate = x[1], !.Text = x[2],
                            !.Link = x[3]]) :
     i \in 0..MaxId, g \in {"A", "B"},
     x \in {<<"", NoText, "">>, <<"d2", PatchText, "l2">>}}
  \cup {Decoded([ZeroSong EXCEPT !.Group = g]) : g \in {"A", "B"}}
  \cup {Decoded([ZeroSong EXCEPT !.SongName = "S"]),
        Decoded(ZeroSong), Undecodable}

\* Filters of GET /songs.
Queries ==
  {Decoded([ZeroSong EXCEPT !.Group = g, !.SongName = "S",
                            !.ReleaseDate = x[1], !.Text = x[2],
                            !.Link = x[3]]) :
     g \in {"A", "B"},
     x \in {<<"", NoText, "">>, <<"d1", <<"b", "a">>, "l1">>}}
  \cup {Decoded([ZeroSong EXCEPT !.Group = "A"]), Undecodable}

\* What the song info service answers.
Detail(t) == [ReleaseDate |-> "d1", Text |-> t, Link |-> "l1"]
NoEnrichment == [outcome |-> "none", detail |-> Detail(NoText)]
Enrichments ==
  {[outcome |-> o, detail |-> Detail(NoText)] :
     o \in {"transport", "non200", "decode"}}
  \cup {[outcome |-> "ok", detail |-> Detail(EnrichText)]}

\* EnrichmentFails without the test of resp.StatusCode.
EnrichmentFailsNoStatusCheck(e) == e.outcome \in {"transport", "decode"}

\* The three failure returns of AddSong after http.Get: the call failed, the
\* status is not 200, the body does not decode.
EnrichmentFails(e) == e.outcome \in {"transport", "non200", "decode"}

Request(op, id, page, limit, body, e) ==
  [op |-> op, id |-> id, page |-> page, limit |-> limit, body |-> body,
   enrich |-> e]

NoRequest == Request("none", Absent, Absent, Absent, Undecodable, NoEnrichment)

Response(status, songs, text, panic, storeErr) ==
  [status |-> status, songs |-> songs, text |-> text, panic |-> panic,
   storeErr |-> storeErr]

\* storeErr: "none", "fault" (result.Error for a reason of the store's own)
\* or "unique" (the statement violated the primary key).
Plain(status) == Response(status, {}, NoText, FALSE, "none")

StoreError(kind) ==
  Response(StatusInternalServerError, {}, NoText, FALSE, kind)

NoPg == [page |-> 0, limit |-> 0, offset |-> 0]

\* page, limit and offset as GetSongs and GetSongText compute them.
Paging(page, limit) ==
  LET p == AtoiDefaultQuery(page, DefaultPage)
      l == AtoiDefaultQuery(limit, DefaultLimit)
  IN [page |-> p, limit |-> l, offset |-> (p - 1) * l]

----------------------------------------------------------------------------
(* GetDB, called by a handler with no other request in flight *)

GetDB ==
  /\ db' = IF db = 0 THEN opens + 1 ELSE db
  /\ opens' = IF db = 0 THEN opens + 1 ELSE opens

NoGetDB == UNCHANGED <<db, opens>>

Workers == 1..NumWorkers

Init ==
  /\ store = {}
  /\ seq = 1
  /\ db = 0
  /\ opens = 0
  /\ req = NoRequest
  /\ resp = Plain(0)
  /\ pg = NoPg
  /\ lastDeleted = 0
  /\ pc = [w \in Workers |-> "idle"]
  /\ conn = [w \in Workers |-> 0]
  /\ got = [w \in Workers |-> 0]
  /\ fatal = FALSE

\* The variables of the goroutines inside GetDB, which Spec leaves alone.
NoWorkers == UNCHANGED <<pc, conn, got, fatal>>

\* The process runs and no request is being handled.
Idle == ~fatal /\ req.op = "none"

----------------------------------------------------------------------------
(* The handlers *)

\* GET /songs
GetSongs ==
  \E page \in QueryVals, limit \in QueryVals, q \in Queries :
    LET p == Paging(page, limit) IN
    /\ Idle
    /\ req' = Request("list", Absent, page, limit, q, NoEnrichment)
    /\ pg' = p
    /\ UNCHANGED <<store, seq, lastDeleted>>
    /\ NoWorkers
    /\ IF ~q.decodable \/ ~Required(q.song)
         THEN resp' = Plain(StatusBadRequest) /\ NoGetDB
         ELSE /\ GetDB
              /\ \E fault \in BOOLEAN :
                   IF fault
                     THEN resp' = StoreError("fault")
                     ELSE \E songs \in DbFind(Selected(store, q.song),
                                              p.offset, p.limit) :
                            resp' = IF songs = {}
                                      THEN Plain(StatusNotFound)
                                      ELSE Response(StatusOK, songs,
                                             NoText, FALSE, "none")

\* POST /songs
AddSong ==
  \E body \in AddBodies :
    /\ Idle
    /\ pg' = NoPg
    /\ NoWorkers
    /\ IF ~body.decodable \/ ~Required(body.song)
         THEN /\ req' = Request("add", Absent, Absent, Absent, body,
                                NoEnrichment)
              /\ resp' = Plain(StatusBadRequest)
              /\ NoGetDB
              /\ UNCHANGED <<store, seq, lastDeleted>>
         ELSE \E e \in Enrichments :
           /\ req' = Request("add", Absent, Absent, Absent, body, e)
           /\ IF EnrichmentFails(e)
                THEN /\ resp' = Plain(StatusInternalServerError)
                     /\ NoGetDB
                     /\ UNCHANGED <<store, seq, lastDeleted>>
                ELSE LET newSong ==
                           [body.song EXCEPT
                              !.ReleaseDate = e.detail.ReleaseDate,
                              !.Text = e.detail.Text,
                              !.Link = e.detail.Link]
                         res == DbCreate(store, seq, newSong)
                     IN /\ newSong.ID = 0 => seq <= MaxId
                        /\ GetDB
                        /\ \E fault \in BOOLEAN :
                             IF fault
                               THEN /\ resp' = StoreError("fault")
                                    /\ UNCHANGED <<store, seq, lastDeleted>>
                               ELSE /\ store' = res.rows
                                    /\ seq' = res.seq
                                    /\ lastDeleted' = IF res.err THEN lastDeleted ELSE 0
                                    /\ resp' =
                                         IF res.err
                                           THEN StoreError("unique")
                                           ELSE Response(StatusCreated,
                                                  {res.song}, NoText,
                                                  FALSE, "none")

\* PUT /songs/:id
UpdateSong ==
  \E id \in PathVals, body \in Patches :
    /\ Idle
    /\ req' = Request("update", id, Absent, Absent, body, NoEnrichment)
    /\ pg' = NoPg
    /\ NoWorkers
    /\ UNCHANGED <<seq, lastDeleted>>
    /\ IF id.k = "nan" \/ ~body.decodable \/ ~Required(body.song)
         THEN resp' = Plain(StatusBadRequest) /\ NoGetDB /\ UNCHANGED store
         ELSE /\ GetDB
              /\ \E fault \in BOOLEAN :
                   IF fault
                     THEN resp' = StoreError("fault") /\ UNCHANGED store
                     ELSE LET res == DbUpdates(store, id.n, body.song)
                          IN /\ store' = res.rows
                             /\ resp' =
                                  IF res.err THEN StoreError("unique")
                                  ELSE IF res.affected = 0
                                    THEN Plain(StatusNotFound)
                                    ELSE Response(StatusOK, {body.song},
                                           NoText, FALSE, "none")

\* DELETE /songs/:id
DeleteSong ==
  \E id \in PathVals :
    /\ Idle
    /\ req' = Request("delete", id, Absent, Absent, Undecodable,
                      NoEnrichment)
    /\ pg' = NoPg
    /\ NoWorkers
    /\ UNCHANGED seq
    /\ IF id.k = "nan"
         THEN /\ resp' = Plain(StatusBadRequest)
              /\ NoGetDB
              /\ UNCHANGED <<store, lastDeleted>>
         ELSE /\ GetDB
              /\ \E fault \in BOOLEAN :
                   IF fault
                     THEN /\ resp' = StoreError("fault")
                          /\ UNCHANGED <<store, lastDeleted>>
                     ELSE LET res == DbDelete(store, id.n)
                          IN /\ store' = res.rows
                             /\ lastDeleted' = IF res.affected = 0 THEN lastDeleted
                                        ELSE id.n
                             /\ resp' = IF res.affected = 0
                                          THEN Plain(StatusNotFound)
                                          ELSE Plain(StatusOK)

\* song.Text[offset:end]: the bytes offset+1..end, and a run-time panic
\* unless 0 <= offset <= end <= len.
SliceInRange(text, offset, end) ==
  0 <= offset /\ offset <= end /\ end <= Len(text)

Slice(text, offset, end) == SubSeq(text, offset + 1, end)

\* GET /songs/:id/text
GetSongText ==
  \E id \in PathVals, page \in QueryVals, limit \in QueryVals :
    /\ Idle
    /\ req' = Request("text", id, page, limit, Undecodable, NoEnrichment)
    /\ NoWorkers
    /\ UNCHANGED <<store, seq, lastDeleted>>
    /\ IF id.k = "nan"
         THEN resp' = Plain(StatusBadRequest) /\ NoGetDB /\ pg' = NoPg
         ELSE /\ GetDB
              /\ \E fault \in BOOLEAN :
                   IF fault
                     THEN resp' = StoreError("fault") /\ pg' = NoPg
                     ELSE IF DbFirst(store, id.n) = {}
                       THEN resp' = Plain(StatusNotFound) /\ pg' = NoPg
                       ELSE \E song \in DbFirst(store, id.n) :
                         LET p == Paging(page, limit)
                             end == min(p.offset + p.limit, Len(song.Text))
                         IN /\ pg' = p
                            /\ resp' =
                                 IF SliceInRange(song.Text, p.offset, end)
                                   THEN Response(StatusOK, {},
                                          Slice(song.Text, p.offset, end),
                                          FALSE, "none")
                                   ELSE Response(StatusInternalServerError,
                                          {}, NoText, TRUE, "none")

\* The handler returns: the response is written and the request's values
\* (the gin context, the handler's locals) are gone.
Return ==
  /\ ~fatal /\ req.op # "none"
  /\ req' = NoRequest
  /\ resp' = Plain(0)
  /\ pg' = NoPg
  /\ UNCHANGED <<store, seq, db, opens, lastDeleted>>
  /\ NoWorkers

\* A handler calls GetDB while db is nil and godotenv.Load or gorm.Open
\* fails: log.Fatal ends the process before any response.
GetDBFatal ==
  /\ Idle /\ db = 0
  /\ fatal' = TRUE
  /\ UNCHANGED <<store, seq, db, opens, req, resp, pg, lastDeleted, pc,
                 conn, got>>

Next ==
  \/ GetSongs \/ AddSong \/ UpdateSong \/ DeleteSong \/ GetSongText
  \/ Return \/ GetDBFatal

Spec == Init /\ [][Next]_vars

----------------------------------------------------------------------------
(* GetDB with several requests in flight: gin runs each handler on its own *)
(* goroutine and db is read and written with no lock.                      *)

NoRequests == UNCHANGED <<store, seq, req, resp, pg, lastDeleted>>

\* A handler calls GetDB.
Call(w) ==
  /\ ~fatal /\ pc[w] = "idle"
  /\ pc' = [pc EXCEPT ![w] = "check"]
  /\ conn' = [conn EXCEPT ![w] = 0]
  /\ UNCHANGED <<db, opens, got, fatal>>
  /\ NoRequests

\* if db == nil
CheckNil(w) ==
  /\ ~fatal /\ pc[w] = "check"
  /\ pc' = [pc EXCEPT ![w] = IF db = 0 THEN "open" ELSE "return"]
  /\ UNCHANGED <<db, opens, conn, got, fatal>>
  /\ NoRequests

\* godotenv.Load and gorm.Open succeed: a new connection.
Open(w) ==
  /\ ~fatal /\ pc[w] = "open"
  /\ opens' = opens + 1
  /\ conn' = [conn EXCEPT ![w] = opens + 1]
  /\ pc' = [pc EXCEPT ![w] = "assign"]
  /\ UNCHANGED <<db, got, fatal>>
  /\ NoRequests

\* godotenv.Load or gorm.Open fails: log.Fatal ends the process.
OpenFails(w) ==
  /\ ~fatal /\ pc[w] = "open"
  /\ fatal' = TRUE
  /\ UNCHANGED <<db, opens, pc, conn, got>>
  /\ NoRequests

\* db = dbConn
Assign(w) ==
  /\ ~fatal /\ pc[w] = "assign"
  /\ db' = conn[w]
  /\ pc' = [pc EXCEPT ![w] = "return"]
  /\ UNCHANGED <<opens, conn, got, fatal>>
  /\ NoRequests

\* return db
ReturnDB(w) ==
  /\ ~fatal /\ pc[w] = "return"
  /\ got' = [got EXCEPT ![w] = db]
  /\ pc' = [pc EXCEPT ![w] = "idle"]
  /\ UNCHANGED <<db, opens, conn, fatal>>
  /\ NoRequests

NextGetDB ==
  \E w \in Workers :
    Call(w) \/ CheckNil(w) \/ Open(w) \/ OpenFails(w) \/ Assign(w)
      \/ ReturnDB(w)

SpecGetDB == Init /\ [][NextGetDB]_vars

----------------------------------------------------------------------------
(* Properties *)

\* The request being answered reached the store and the store did not fail
\* for a reason of its own.
StoreAnswered == resp.storeErr = "none"

\* The id a well-formed request names in its path.
PathId == req.id.n

\* C1: a successful List returns only rows that match every non-empty
\* filter of the request (exact match, substring match for text).
C1_ListReturnsOnlyMatchingRows ==
  (req.op = "list" /\ resp.status = StatusOK) =>
    \A r \in resp.songs : Matches(r, req.body.song)

\* The window of text the paginated text endpoint is to return.
TextWindow(text, page, limit) ==
  LET offset == (page - 1) * limit
  IN IF offset >= Len(text) THEN NoText
     ELSE SubSeq(text, offset + 1, min(offset + limit, Len(text)))

\* C2: for an existing song, Get-song-text answers the bytes
\* [offset, min(offset+limit, L)) of its text with offset = (page-1)*limit,
\* the empty string when offset >= L, and never ends in a panic; stated
\* here for page >= 1 and limit >= 1, absent values taking the defaults.
C2_TextWindowNeverPanics ==
  (/\ req.op = "text" /\ req.id.k = "num" /\ StoreAnswered
   /\ PathId \in RowIds(store)
   /\ req.page.k # "nan" /\ req.limit.k # "nan"
   /\ AtoiDefaultQuery(req.page, DefaultPage) >= 1
   /\ AtoiDefaultQuery(req.limit, DefaultLimit) >= 1) =>
    /\ ~resp.panic
    /\ resp.status = StatusOK
    /\ \A r \in DbFirst(store, PathId) :
         resp.text = TextWindow(r.Text,
                                AtoiDefaultQuery(req.page, DefaultPage),
                                AtoiDefaultQuery(req.limit, DefaultLimit))

\* C3: when Add song meets an enrichment failure (transport error, non-200
\* status, undecodable body) it answers 500 and the store holds exactly the
\* rows it held before the request.
C3_EnrichmentFailureNotPersisted ==
  [][(/\ Idle /\ req'.op = "add"
      /\ req'.enrich.outcome \in {"transport", "non200", "decode"}) =>
       (resp'.status = StatusInternalServerError /\ store' = store)]_vars

\* An Add song answered 500 after a non-200 enrichment answer, over a store
\* that holds rows.
C3_Witness ==
  /\ req.op = "add" /\ req.enrich.outcome = "non200"
  /\ resp.status = StatusInternalServerError
  /\ store # {}

\* C4: on a successful Add song the persisted row carries the id the store
\* assigned (the value its sequence just handed out), whatever id the
\* request body carried.
C4_IdAssignedByStore ==
  (req.op = "add" /\ resp.status = StatusCreated) =>
    \A s \in resp.songs :
      /\ s.ID = seq - 1
      /\ s \in store

\* C5: the id of a stored row never changes; an Update song, which neither
\* inserts nor deletes a row, leaves the ids of the table as they were,
\* whatever id its body carries.
C5_IdImmutable ==
  [][(Idle /\ req'.op = "update") => (RowIds(store') = RowIds(store))]_vars

\* The body of an Update song that carries group and nothing else.
GroupOnly(body) ==
  /\ body.decodable
  /\ body.song.Group # ""
  /\ body.song = [ZeroSong EXCEPT !.Group = body.song.Group]

\* C6: an Update song on an existing id whose body carries only group = X
\* is applied: it answers 200 and the row's group is X.
C6_GroupOnlyPatchApplied ==
  (/\ req.op = "update" /\ req.id.k = "num" /\ GroupOnly(req.body)
   /\ StoreAnswered /\ PathId \in RowIds(store)) =>
    /\ resp.status = StatusOK
    /\ \A r \in DbFirst(store, PathId) : r.Group = req.body.song.Group

\* A well-formed Update, Delete or Get-song-text request.
WellFormed(r) ==
  /\ r.op \in {"update", "delete", "text"}
  /\ r.id.k = "num"
  /\ r.op = "update" => (r.body.decodable /\ Required(r.body.song))

\* C7: a well-formed Update, Delete or Get-song-text on id i answers 404
\* exactly when no row with id i exists, a 404 leaves the store unchanged,
\* and after a successful Delete of i, with no create since, Get-song-text
\* on i answers 404.
C7_NotFoundExactlyWhenNoRow ==
  [][(Idle /\ WellFormed(req') /\ resp'.storeErr # "fault") =>
       /\ (resp'.status = StatusNotFound) <=> (req'.id.n \notin RowIds(store))
       /\ (resp'.status = StatusNotFound) => (store' = store)
       /\ (req'.op = "text" /\ lastDeleted # 0 /\ req'.id.n = lastDeleted) =>
            (resp'.status = StatusNotFound)]_vars

\* C8: List answers 404 whenever no row matches the filters of the
\* request, and answers 200 only with a non-empty array.
C8_NoMatchIsNotFound ==
  (req.op = "list" /\ req.body.decodable /\ Required(req.body.song)
     /\ StoreAnswered) =>
    /\ (\A r \in store : ~Matches(r, req.body.song)) =>
         (resp.status = StatusNotFound)
    /\ (resp.status = StatusOK) => (resp.songs # {})

\* C9: under any interleaving of the calls of GetDB the connection is
\* opened at most once and every call returns the same handle.
C9_OpenedOnce ==
  /\ opens <= 1
  /\ \A v, w \in Workers : (got[v] # 0 /\ got[w] # 0) => got[v] = got[w]

\* page, limit and offset when a value that is not a number falls back to
\* the default.
FallBack(q, def) == IF q.k = "num" THEN q.n ELSE def

\* C10: in List and Get-song-text a page or limit that is not a number
\* falls back to its default (1, 10); the offset the store call or the slice
\* uses is (page-1)*limit with those values and is not negative when page
\* is not a number.
C10_NonNumericFallsBackToDefault ==
  (/\ \/ (req.op = "list" /\ resp.status # StatusBadRequest)
      \/ (req.op = "text" /\ req.id.k = "num"
            /\ resp.status # StatusNotFound)
   /\ StoreAnswered
   /\ (req.page.k = "nan" \/ req.limit.k = "nan")) =>
    /\ pg.page = FallBack(req.page, DefaultPage)
    /\ pg.limit = FallBack(req.limit, DefaultLimit)
    /\ pg.offset = (pg.page - 1) * pg.limit
    /\ (req.page.k = "nan") => (pg.offset >= 0)

====
